---- MODULE Spec2Model ----
(***************************************************************************)
(* Model of src-tauri/src/lib.rs: the arXiv import pipeline                *)
(* (import_arxiv_paper and the pure helpers it composes).                  *)
(*                                                                         *)
(* Strings are TLA+ strings; a character is a string of length 1, taken    *)
(* with SubSeq(s, i, i).  Option<T> is a record [some, val] whose val is   *)
(* a default of type T when some is FALSE.                                 *)
(***************************************************************************)
EXTENDS Integers, Sequences, FiniteSets, TLC

(***************************************************************************)
(* Characters and strings                                                  *)
(***************************************************************************)
\* let x = v in F(x): v is evaluated once and F sees its value
Bind(v, F(_)) == CHOOSE r \in {F(x) : x \in {v}} : TRUE

Digits == "0123456789"
UpperLetters == "ABCDEFGHIJKLMNOPQRSTUVWXYZ"
LowerLetters == "abcdefghijklmnopqrstuvwxyz"

CharAt(s, i) == SubSeq(s, i, i)

Contains(s, c) == \E i \in 1..Len(s) : CharAt(s, i) = c

IndexIn(s, c) == CHOOSE i \in 1..Len(s) : CharAt(s, i) = c

IsDigit(c) == Contains(Digits, c)

IsAlpha(c) == Contains(UpperLetters, c) \/ Contains(LowerLetters, c)

Whitespace == " \t\n\r"

IsSpace(c) == Contains(Whitespace, c)

AllChars(s, P(_)) == \A i \in 1..Len(s) : P(CharAt(s, i))

StartsWith(s, pre) == Len(s) >= Len(pre) /\ SubSeq(s, 1, Len(pre)) = pre

EndsWith(s, suf) == Len(s) >= Len(suf) /\ SubSeq(s, Len(s) - Len(suf) + 1, Len(s)) = suf

Drop(s, n) == SubSeq(s, n + 1, Len(s))

Take(s, n) == IF Len(s) <= n THEN s ELSE SubSeq(s, 1, n)

\* position of the first character of s that is in cs, Len(s) + 1 if none
FirstOf(s, cs) ==
    CHOOSE i \in 1..(Len(s) + 1) :
        /\ i = Len(s) + 1 \/ Contains(cs, CharAt(s, i))
        /\ \A j \in 1..(i - 1) : ~Contains(cs, CharAt(s, j))

\* position of the first character of s that is not in cs, Len(s) + 1 if none
FirstNotOf(s, cs) ==
    CHOOSE i \in 1..(Len(s) + 1) :
        /\ i = Len(s) + 1 \/ ~Contains(cs, CharAt(s, i))
        /\ \A j \in 1..(i - 1) : Contains(cs, CharAt(s, j))

\* position of the last character of s that is in cs, 0 if none
LastOf(s, cs) ==
    CHOOSE i \in 0..Len(s) :
        /\ i = 0 \/ Contains(cs, CharAt(s, i))
        /\ \A j \in (i + 1)..Len(s) : ~Contains(cs, CharAt(s, j))

\* position of the last character of s that is not in cs, 0 if none
LastNotOf(s, cs) ==
    CHOOSE i \in 0..Len(s) :
        /\ i = 0 \/ ~Contains(cs, CharAt(s, i))
        /\ \A j \in (i + 1)..Len(s) : Contains(cs, CharAt(s, j))

\* char::to_lowercase on the ASCII letters
LowerChar(c) == IF Contains(UpperLetters, c) THEN CharAt(LowerLetters, IndexIn(UpperLetters, c)) ELSE c

\* the characters lo..hi of s in lower case (the range is halved to keep the
\* recursion shallow)
RECURSIVE LowerRange(_, _, _)
LowerRange(s, lo, hi) ==
    Bind(<<lo, hi, (lo + hi) \div 2>>, LAMBDA r :
        IF r[1] > r[2] THEN ""
        ELSE IF r[1] = r[2] THEN Bind(CharAt(s, r[1]), LowerChar)
        ELSE LowerRange(s, r[1], r[3]) \o LowerRange(s, r[3] + 1, r[2]))

\* str::to_lowercase
ToLower(s) == Bind(s, LAMBDA v : LowerRange(v, 1, Len(v)))

\* str::trim_start_matches / trim_end_matches / trim_matches for the characters of cs
TrimStartBy(s, cs) == Bind(s, LAMBDA v : Drop(v, FirstNotOf(v, cs) - 1))

TrimEndBy(s, cs) == Bind(s, LAMBDA v : SubSeq(v, 1, LastNotOf(v, cs)))

TrimBy(s, cs) == Bind(s, LAMBDA v : SubSeq(v, FirstNotOf(v, cs), LastNotOf(v, cs)))

\* str::trim
Trim(s) == TrimBy(s, Whitespace)

\* str::trim_matches('/')
TrimSlashes(s) == TrimBy(s, "/")

\* the whitespace-separated words of s from position i on
RECURSIVE WordsFrom(_, _)
WordsFrom(s, i) ==
    Bind(i, LAMBDA k :
        IF k > Len(s) THEN <<>>
        ELSE IF IsSpace(CharAt(s, k)) THEN WordsFrom(s, k + 1)
        ELSE Bind(k + FirstOf(Drop(s, k), Whitespace) - 1,
                  LAMBDA e : <<SubSeq(s, k, e)>> \o WordsFrom(s, e + 1)))

\* str::split_whitespace: the maximal non-whitespace runs, in order
SplitWhitespace(s) == Bind(s, LAMBDA v : WordsFrom(v, 1))

RECURSIVE JoinFrom(_, _, _)
JoinFrom(parts, i, sep) ==
    Bind(i, LAMBDA k :
        IF k > Len(parts) THEN ""
        ELSE IF k = Len(parts) THEN parts[k]
        ELSE parts[k] \o sep \o JoinFrom(parts, k + 1, sep))

\* [String]::join(sep)
Join(parts, sep) == Bind(parts, LAMBDA ps : JoinFrom(ps, 1, sep))

\* the characters lo..hi of s with every from replaced by to
RECURSIVE ReplaceRange(_, _, _, _, _)
ReplaceRange(s, lo, hi, from, to) ==
    Bind(<<lo, hi, (lo + hi) \div 2>>, LAMBDA r :
        IF r[1] > r[2] THEN ""
        ELSE IF r[1] = r[2] THEN (IF CharAt(s, r[1]) = from THEN to ELSE CharAt(s, r[1]))
        ELSE ReplaceRange(s, r[1], r[3], from, to) \o ReplaceRange(s, r[3] + 1, r[2], from, to))

\* str::replace(from, to) for a single character from
ReplaceChar(s, from, to) == Bind(s, LAMBDA v : ReplaceRange(v, 1, Len(v), from, to))

\* the characters lo..hi of s that are not in cs
RECURSIVE RemoveRange(_, _, _, _)
RemoveRange(s, lo, hi, cs) ==
    Bind(<<lo, hi, (lo + hi) \div 2>>, LAMBDA r :
        IF r[1] > r[2] THEN ""
        ELSE IF r[1] = r[2] THEN (IF Contains(cs, CharAt(s, r[1])) THEN "" ELSE CharAt(s, r[1]))
        ELSE RemoveRange(s, r[1], r[3], cs) \o RemoveRange(s, r[3] + 1, r[2], cs))

\* s without the characters of cs
RemoveChars(s, cs) == Bind(s, LAMBDA v : RemoveRange(v, 1, Len(v), cs))

(***************************************************************************)
(* Option values                                                           *)
(***************************************************************************)
NoneU32 == [some |-> FALSE, val |-> 0]
SomeU32(n) == [some |-> TRUE, val |-> n]
NoneStr == [some |-> FALSE, val |-> ""]
SomeStr(s) == [some |-> TRUE, val |-> s]

(***************************************************************************)
(* parse_plain_arxiv_id                                                    *)
(***************************************************************************)
\* u32::MAX as a decimal string; str::parse::<u32> fails above it
U32MaxDigits == "4294967295"

DigitAt(ds, i) == IndexIn(Digits, CharAt(ds, i)) - 1

\* decimal strings of equal length: a <= b
DigitsLeq(a, b) ==
    \/ a = b
    \/ \E i \in 1..Len(a) :
        /\ DigitAt(a, i) < DigitAt(b, i)
        /\ \A j \in 1..(i - 1) : CharAt(a, j) = CharAt(b, j)

\* the number the first n digits of ds denote
RECURSIVE DigitsValue(_, _)
DigitsValue(ds, n) ==
    Bind(n, LAMBDA k : IF k = 0 THEN 0 ELSE 10 * DigitsValue(ds, k - 1) + DigitAt(ds, k))

\* str::parse::<u32>().ok() on a non-empty string of digits
ParseU32(ds) ==
    Bind(TrimStartBy(ds, "0"), LAMBDA sig :
        IF Len(sig) > Len(U32MaxDigits) THEN NoneU32
        ELSE IF Len(sig) = Len(U32MaxDigits) /\ ~DigitsLeq(sig, U32MaxDigits) THEN NoneU32
        ELSE SomeU32(DigitsValue(sig, Len(sig))))

IsArchiveChar(c) == IsAlpha(c) \/ c = "." \/ c = "-"

\* [A-Za-z\.\-]+/[0-9]{7}
IsLegacyBase(s) ==
    /\ Len(s) >= 9
    /\ CharAt(s, Len(s) - 7) = "/"
    /\ AllChars(SubSeq(s, 1, Len(s) - 8), IsArchiveChar)
    /\ AllChars(SubSeq(s, Len(s) - 6, Len(s)), IsDigit)

\* [0-9]{4}\.[0-9]{4,5}
IsModernBase(s) ==
    /\ Len(s) \in {9, 10}
    /\ AllChars(SubSeq(s, 1, 4), IsDigit)
    /\ CharAt(s, 5) = "."
    /\ AllChars(SubSeq(s, 6, Len(s)), IsDigit)

IsBase(s) == Bind(s, LAMBDA v : IsLegacyBase(v) \/ IsModernBase(v))

\* (?:v(?P<version>[0-9]+))?$
IsVersionSuffix(s) ==
    Bind(s, LAMBDA v : Len(v) = 0 \/ (Len(v) >= 2 /\ CharAt(v, 1) = "v" /\ AllChars(Drop(v, 1), IsDigit)))

NoParse == [ok |-> FALSE, base |-> "", version |-> NoneU32]

\* the captures of a match whose base group is the first k characters of t
Captures(t, k) ==
    [ok |-> TRUE,
     base |-> ToLower(SubSeq(t, 1, k)),
     version |-> IF k = Len(t) THEN NoneU32 ELSE ParseU32(Drop(t, k + 1))]

parse_plain_arxiv_id(value) ==
    Bind(Trim(value), LAMBDA t :
        Bind({k \in 1..Len(t) : IsBase(SubSeq(t, 1, k)) /\ IsVersionSuffix(Drop(t, k))}, LAMBDA splits :
            IF splits = {} THEN NoParse ELSE Captures(t, CHOOSE k \in splits : TRUE)))

(***************************************************************************)
(* Url::parse, as far as parse_arxiv_input reads its result: whether the   *)
(* text is an absolute URL, its host_str() and its path().  User info and  *)
(* port are split off the authority; query and fragment are cut off the    *)
(* path, with "." and ".." segments resolved.  Percent-encoding is not     *)
(* modelled (no input of the model contains a character to encode or a     *)
(* percent-encoded dot).                                                   *)
(***************************************************************************)
IsSchemeChar(c) == IsAlpha(c) \/ IsDigit(c) \/ c = "+" \/ c = "-" \/ c = "."

\* schemes whose URLs always have a host ("special" schemes of the URL standard)
SpecialSchemes == {"http", "https", "ws", "wss", "ftp"}

UrlErr == [ok |-> FALSE, host |-> NoneStr, path |-> ""]

\* the segments of s between the "/" characters, from position i on
RECURSIVE SegmentsFrom(_, _)
SegmentsFrom(s, i) ==
    Bind(i, LAMBDA k :
        Bind(k - 1 + FirstOf(Drop(s, k - 1), "/"), LAMBDA e :
            IF e > Len(s) THEN <<SubSeq(s, k, Len(s))>>
            ELSE <<SubSeq(s, k, e - 1)>> \o SegmentsFrom(s, e + 1)))

Pop(stack) == IF Len(stack) = 0 THEN stack ELSE SubSeq(stack, 1, Len(stack) - 1)

\* the path segments kept: "." is skipped, ".." removes the segment before
\* it, and either of them in last position leaves an empty last segment
RECURSIVE RemoveDots(_, _, _)
RemoveDots(segs, i, stack) ==
    Bind(i, LAMBDA k :
        Bind(stack, LAMBDA st :
            IF k > Len(segs) THEN st
            ELSE IF segs[k] = ".."
            THEN RemoveDots(segs, k + 1, IF k = Len(segs) THEN Append(Pop(st), "") ELSE Pop(st))
            ELSE IF segs[k] = "."
            THEN RemoveDots(segs, k + 1, IF k = Len(segs) THEN Append(st, "") ELSE st)
            ELSE RemoveDots(segs, k + 1, Append(st, segs[k]))))

\* a path that starts with "/", its dot segments resolved
NormalizePath(raw) ==
    Bind(SegmentsFrom(raw, 2), LAMBDA segs : "/" \o Join(RemoveDots(segs, 1, <<>>), "/"))

\* the path of a URL: what precedes the query and the fragment
UrlPath(special, tail) ==
    Bind(Take(tail, FirstOf(tail, "?#") - 1), LAMBDA raw :
        IF special THEN (IF Len(raw) = 0 THEN "/" ELSE NormalizePath(ReplaceChar(raw, "\\", "/")))
        ELSE IF StartsWith(raw, "/") THEN NormalizePath(raw)
        ELSE raw)

\* host and port of an authority without its user info
UrlHost(special, hostPort, path) ==
    Bind(FirstOf(hostPort, ":"), LAMBDA colon :
        IF special /\ colon = 1 THEN UrlErr                                  \* EmptyHost
        ELSE IF ~AllChars(Drop(hostPort, colon), IsDigit) THEN UrlErr        \* InvalidPort
        ELSE IF colon = 1 THEN [ok |-> TRUE, host |-> NoneStr, path |-> path]
        ELSE [ok |-> TRUE,
              host |-> SomeStr(IF special THEN ToLower(Take(hostPort, colon - 1)) ELSE Take(hostPort, colon - 1)),
              path |-> path])

\* what follows "scheme:" and the slashes before the authority
UrlAuthority(special, text) ==
    Bind(FirstOf(text, IF special THEN "/\\?#" ELSE "/?#"), LAMBDA authEnd :
        Bind(Take(text, authEnd - 1), LAMBDA authority :
            Bind(UrlPath(special, Drop(text, authEnd - 1)), LAMBDA path :
                UrlHost(special, Drop(authority, LastOf(authority, "@")), path))))

\* what follows "scheme:"; a special scheme skips every slash before the authority
UrlAfterScheme(special, rest) ==
    IF special THEN Bind(TrimStartBy(rest, "/\\"), LAMBDA text : UrlAuthority(special, text))
    ELSE IF StartsWith(rest, "//") THEN Bind(Drop(rest, 2), LAMBDA text : UrlAuthority(special, text))
    ELSE [ok |-> TRUE, host |-> NoneStr, path |-> UrlPath(special, rest)]

HasScheme(t, colon) ==
    /\ colon <= Len(t)
    /\ colon >= 2
    /\ IsAlpha(CharAt(t, 1))
    /\ AllChars(Take(t, colon - 1), IsSchemeChar)

UrlParse(text) ==
    Bind(Trim(text), LAMBDA t :
        Bind(FirstOf(t, ":"), LAMBDA colon :
            IF ~HasScheme(t, colon) THEN UrlErr                              \* RelativeUrlWithoutBase
            ELSE Bind(ToLower(Take(t, colon - 1)) \in SpecialSchemes, LAMBDA special :
                     Bind(Drop(t, colon), LAMBDA rest : UrlAfterScheme(special, rest)))))

(***************************************************************************)
(* parse_arxiv_input                                                       *)
(***************************************************************************)
ArxivHosts == {"arxiv.org", "www.arxiv.org"}

\* str::strip_suffix(suf).unwrap_or(s)
StripSuffixOr(s, suf) == IF EndsWith(s, suf) THEN SubSeq(s, 1, Len(s) - Len(suf)) ELSE s

\* variant: any host under arxiv.org is accepted
ParseArxivUrlAnySubdomain(url) ==
    IF ~url.host.some THEN NoParse
    ELSE IF ~EndsWith(ToLower(url.host.val), "arxiv.org") THEN NoParse
    ELSE Bind(TrimSlashes(url.path), LAMBDA path :
             IF StartsWith(path, "abs/") THEN parse_plain_arxiv_id(Drop(path, 4))
             ELSE IF StartsWith(path, "pdf/") THEN parse_plain_arxiv_id(StripSuffixOr(Drop(path, 4), ".pdf"))
             ELSE NoParse)

\* lines 104-117: the URL branch
ParseArxivUrl(url) ==
    IF ~url.host.some THEN NoParse
    ELSE IF ToLower(url.host.val) \notin ArxivHosts THEN NoParse
    ELSE Bind(TrimSlashes(url.path), LAMBDA path :
             IF StartsWith(path, "abs/") THEN parse_plain_arxiv_id(Drop(path, 4))
             ELSE IF StartsWith(path, "pdf/") THEN parse_plain_arxiv_id(StripSuffixOr(Drop(path, 4), ".pdf"))
             ELSE NoParse)

parse_arxiv_input(value) ==
    Bind(Trim(value), LAMBDA trimmed :
        IF Len(trimmed) = 0 THEN NoParse
        ELSE Bind(UrlParse(trimmed), LAMBDA url :
                 IF url.ok THEN ParseArxivUrl(url) ELSE parse_plain_arxiv_id(trimmed)))

(***************************************************************************)
(* compact_text, sanitize_title_for_filename                               *)
(***************************************************************************)
compact_text(value) == Join(SplitWhitespace(value), " ")

\* sanitize_filename's ILLEGAL_RE [/\?<>\\:\*\|":]
IllegalChars == "/?<>\\:*|\""

\* sanitize_filename's RESERVED_RE ^\.+$
IsReservedName(s) == Len(s) > 0 /\ \A i \in 1..Len(s) : CharAt(s, i) = "."

\* sanitize_filename::sanitize with its default options on a non-Windows
\* build, for printable ASCII input shorter than its 255-byte limit
sanitize(name) ==
    Bind(RemoveChars(name, IllegalChars), LAMBDA stripped : IF IsReservedName(stripped) THEN "" ELSE stripped)

TitleMaxChars == 96

\* variant: an empty result is returned as it is
sanitize_title_without_fallback(title) ==
    LET compact == compact_text(title)
        underscored == ReplaceChar(ReplaceChar(compact, "/", " "), "\\", " ")
        joined == Join(SplitWhitespace(underscored), "_")
        truncated == Bind(joined, LAMBDA j : Take(j, TitleMaxChars))
    IN  sanitize(truncated)

sanitize_title_for_filename(title) ==
    LET compact == compact_text(title)
        underscored == ReplaceChar(ReplaceChar(compact, "/", " "), "\\", " ")
        joined == Join(SplitWhitespace(underscored), "_")
        truncated == Bind(joined, LAMBDA j : Take(j, TitleMaxChars))
    IN  Bind(sanitize(truncated), LAMBDA cleaned : IF Len(cleaned) = 0 THEN "paper" ELSE cleaned)

(***************************************************************************)
(* ArxivPaperMetadata, ArxivImportResult, skipped_result                   *)
(***************************************************************************)
NoPaperVal == [arxiv_id |-> "", version |-> 0, title |-> "", abs_url |-> "", pdf_url |-> ""]
NonePaper == [some |-> FALSE, val |-> NoPaperVal]
SomePaper(paper) == [some |-> TRUE, val |-> paper]

\* variant: a skipped result that never carries the paper
skipped_result_without_paper(reason, paper) ==
    [status |-> "skipped",
     reason |-> SomeStr(reason),
     pdf_path |-> NoneStr,
     pdf_size |-> NoneU32,
     metadata_path |-> NoneStr,
     paper |-> NonePaper]

skipped_result(reason, paper) ==
    [status |-> "skipped",
     reason |-> SomeStr(reason),
     pdf_path |-> NoneStr,
     pdf_size |-> NoneU32,
     metadata_path |-> NoneStr,
     paper |-> paper]

\* Result<ArxivImportResult, String>
Ok(value) == [tag |-> "Ok", value |-> value]

NoResult == [tag |-> "Pending", value |-> skipped_result("", NonePaper)]

(***************************************************************************)
(* Version resolution on the first feed entry (lines 488-516)              *)
(***************************************************************************)
Max(a, b) == IF a >= b THEN a ELSE b

\* the version an id or href yields for base_id: Some(version.max(1)) when it
\* decodes to base_id with an explicit version, None otherwise
VersionFor(text, base_id) ==
    Bind(IF text.some THEN parse_arxiv_input(text.val) ELSE NoParse, LAMBDA decoded :
        IF decoded.ok /\ decoded.base = base_id /\ decoded.version.some
        THEN SomeU32(Max(decoded.version.val, 1))
        ELSE NoneU32)

\* the for loop over entry.link with its break
\* variant: the loop has no break, the last qualifying link wins
RECURSIVE ScanLinksNoBreak(_, _, _, _)
ScanLinksNoBreak(links, i, base_id, latest) ==
    Bind(i, LAMBDA k :
        IF k > Len(links) THEN latest
        ELSE Bind(VersionFor(links[k], base_id), LAMBDA found :
                 ScanLinksNoBreak(links, k + 1, base_id, IF found.some THEN found.val ELSE latest)))

RECURSIVE ScanLinks(_, _, _, _)
ScanLinks(links, i, base_id, latest) ==
    Bind(i, LAMBDA k :
        IF k > Len(links) THEN latest
        ELSE Bind(VersionFor(links[k], base_id), LAMBDA found :
                 IF found.some THEN found.val ELSE ScanLinks(links, k + 1, base_id, latest)))

ResolveLatestVersion(first, base_id) ==
    Bind(VersionFor(first.id, base_id), LAMBDA fromId :
        Bind(IF fromId.some THEN fromId.val ELSE 1, LAMBDA latest :
            IF latest = 1 THEN ScanLinks(first.link, 1, base_id, latest) ELSE latest))

\* requested_version.unwrap_or(latest_version.max(1))
EffectiveVersion(requested_version, latest_version) ==
    IF requested_version.some THEN requested_version.val ELSE Max(latest_version, 1)

IdWithVersion(base_id, version) == base_id \o "v" \o ToString(version)

BuildPaper(first, base_id, version) ==
    Bind(IdWithVersion(base_id, version), LAMBDA id_with_version :
        Bind(IF first.title.some THEN compact_text(first.title.val) ELSE "", LAMBDA compacted :
            [arxiv_id |-> base_id,
             version |-> version,
             title |-> IF Len(compacted) > 0 THEN compacted ELSE "arXiv " \o id_with_version,
             abs_url |-> "https://arxiv.org/abs/" \o id_with_version,
             pdf_url |-> "https://arxiv.org/pdf/" \o id_with_version \o ".pdf"]))

FileStem(resolved) ==
    ReplaceChar(IdWithVersion(resolved.arxiv_id, resolved.version), "/", "_")
    \o "_" \o sanitize_title_for_filename(resolved.title)

\* Path::join for a relative file name
PathJoin(dir, name) == dir \o "/" \o name

PdfPath(target_dir, file_stem) == PathJoin(target_dir, file_stem \o ".pdf")

MetadataPath(target_dir, file_stem) == PathJoin(target_dir, file_stem \o ".metadata.json")

(***************************************************************************)
(* Bounds and input sets                                                   *)
(***************************************************************************)
\* total number of import_arxiv_paper invocations in a behaviour
MaxImports == 2

\* the concurrently running invocations (tauri async commands)
Procs == {"p1", "p2"}

Inputs ==
    {"2301.12345", " https://arxiv.org/abs/2301.12345v2 ", "2301.12345v0", "https://example.com/abs/2301.12345"}

\* identifiers given bare to the parser: both grammars, with and without a
\* version suffix, in mixed case, and strings that match neither grammar
ParserIds ==
    {"2301.12345", "2301.1234", "2301.12345v2", "2301.12345v0", "2301.12345v4294967296",
     "hep-th/9901001", "Math.GT/0309136v3", "../0309136", "2301.123456", "2301.12345v"}

\* what is put before and after an identifier to make a URL of it
Wrapper(pre, suf) == [pre |-> pre, suf |-> suf]

ArxivWrappers ==
    {Wrapper("https://arxiv.org/abs/", ""), Wrapper("https://arxiv.org/pdf/", ".pdf"),
     Wrapper("https://www.arxiv.org/abs/", ""), Wrapper("https://www.arxiv.org/pdf/", ".pdf")}

OtherWrappers ==
    {Wrapper("HTTPS://ArXiv.ORG/abs/", ""), Wrapper("https://example.com/abs/", ""),
     Wrapper("https://export.arxiv.org/pdf/", ".pdf"), Wrapper("https://arxiv.org/list/", ""),
     Wrapper("https://arxiv.org/ABS/", ""), Wrapper("https://arxiv.org/", "")}

Wrap(w, id) == w.pre \o id \o w.suf

UrlInputs == {Wrap(w, id) : w \in ArxivWrappers \cup OtherWrappers, id \in ParserIds}

\* titles given to the sanitizer: empty, blank, punctuation only, dots only,
\* with path separators, and longer than 96 characters
TitleHeads == {"", " ", "/", "..", "Attention is all you need: transformers/sequences "}

TitleMiddles == {"", ":?*", "\\", "Deep  Learning", "and a very long subtitle about <graph> networks..."}

TitleTails == {"", "\t", ".", "a/b", "<World Models>"}

Titles == {a \o b \o c : a \in TitleHeads, b \in TitleMiddles, c \in TitleTails}

\* a resolved paper with the given title
TitledPaper(title) ==
    [arxiv_id |-> "2301.12345", version |-> 1, title |-> title,
     abs_url |-> "https://arxiv.org/abs/2301.12345v1", pdf_url |-> "https://arxiv.org/pdf/2301.12345v1.pdf"]

Policies == {"skip", "overwrite"}

\* "/notes.txt" is a regular file from the start, "/papers" does not exist yet
TargetDirs == {"/papers", "/notes.txt", " "}

NoEntry == [id |-> NoneStr, title |-> NoneStr, link |-> <<>>]

\* ArxivApiEntry values a decoded feed can start with (id, title, link hrefs)
EntryIdV3 ==
    [id |-> SomeStr("http://arxiv.org/abs/2301.12345v3"),
     title |-> SomeStr("Attention  Is All\n  You Need"),
     link |-> <<SomeStr("http://arxiv.org/abs/2301.12345v2"), SomeStr("http://arxiv.org/pdf/2301.12345v2")>>]

EntryIdV1 ==
    [id |-> SomeStr("http://arxiv.org/abs/2301.12345v1"),
     title |-> SomeStr("Attention Is All You Need"),
     link |-> <<SomeStr("http://arxiv.org/abs/2301.12345v2")>>]

EntryNoVersion ==
    [id |-> SomeStr("http://arxiv.org/abs/2301.12345"), title |-> NoneStr, link |-> <<>>]

Entries == {EntryIdV3, EntryIdV1, EntryNoVersion}

\* first entries given to the version resolution: an id that is absent, not
\* an arXiv reference, of another paper, without a version or with one, and
\* up to MaxLinks links
MaxLinks == 2

EntryIds ==
    {NoneStr, SomeStr("not an id"), SomeStr("http://arxiv.org/abs/2301.99999v7"),
     SomeStr("http://arxiv.org/abs/2301.12345"), SomeStr("http://arxiv.org/abs/2301.12345v3")}

LinkHrefs ==
    {NoneStr, SomeStr("http://arxiv.org/abs/2301.99999v5"), SomeStr("http://arxiv.org/abs/2301.12345"),
     SomeStr("http://arxiv.org/abs/2301.12345v0"), SomeStr("http://arxiv.org/abs/2301.12345v2"),
     SomeStr("http://arxiv.org/pdf/2301.12345v4")}

LinkLists == UNION {[1..n -> LinkHrefs] : n \in 0..MaxLinks}

ResolveEntries == {[id |-> id, title |-> SomeStr("A Title"), link |-> links] : id \in EntryIds, links \in LinkLists}

\* a metadata response body: undecodable XML, or a feed and its entry list
FeedBodies ==
    {[decodes |-> FALSE, entry |-> <<>>],
     [decodes |-> TRUE, entry |-> <<>>],
     [decodes |-> TRUE, entry |-> <<EntryIdV3, EntryNoVersion>>],
     [decodes |-> TRUE, entry |-> <<EntryIdV1>>],
     [decodes |-> TRUE, entry |-> <<EntryNoVersion>>]}

\* HTTP status codes a server answers with
Statuses == {200, 404, 500}

\* StatusCode::is_success
IsSuccess(status) == status >= 200 /\ status < 300

\* bodies of a PDF response (a version's PDF is the same for every request)
PdfBodies == {"%PDF-1.5"}

\* SystemTime::now() as seconds since the epoch, as a string
unix_timestamp_string(seconds) == ToString(seconds)

(***************************************************************************)
(* File system                                                             *)
(***************************************************************************)
DirNode == [kind |-> "dir", data |-> ""]
FileNode(data) == [kind |-> "file", data |-> data]

\* Path::exists, Path::is_dir
Exists(files, path) == path \in DOMAIN files
IsDir(files, path) == Exists(files, path) /\ files[path].kind = "dir"

\* fs::create_dir_all succeeding
CreateDirAll(files, path) == (path :> DirNode) @@ files

\* variant: a write that opens with create_new and leaves an existing file alone
WriteFileCreateNew(files, path, data) ==
    IF path \in DOMAIN files THEN files ELSE (path :> [kind |-> "file", data |-> data]) @@ files

\* fs::write succeeding: creates or truncates the file and writes data
WriteFile(files, path, data) == (path :> FileNode(data)) @@ files

\* variant: a failing write removes the file it could not write
FailedWritesRemoving(files, path, data) == {files, [x \in DOMAIN files \ {path} |-> files[x]]}

\* what a failing fs::write can leave behind: nothing changed (the open
\* failed), or the file created or truncated and holding a strict prefix of
\* data (the empty prefix stands for them)
FailedWrites(files, path, data) == {files, WriteFile(files, path, "")}

(***************************************************************************)
(* State                                                                   *)
(***************************************************************************)
VARIABLES
    fs,               \* path -> node, the paths that exist
    pc,               \* position of each invocation
    args,             \* input_url_or_id, target_dir, conflict_policy
    parsed,           \* (base_id, requested_version)
    entry,            \* the first feed entry
    latest_version,
    paper,            \* Option<ArxivPaperMetadata>
    file_stem,
    pdf_bytes,
    result,           \* the value the invocation returns
    http,             \* what the two GETs of the invocation met
    calls,            \* number of network requests and file system calls made
    stages,           \* the stages the invocation went through, in order
    metadata_text,    \* the sidecar text the invocation wrote
    last_writer,      \* path -> the invocation whose fs::write succeeded last
    downloaded,       \* pdf path -> what the first Downloaded outcome for it left on disk
    partial,          \* pdf paths of the imports that wrote the PDF and then failed on the sidecar
    imports,          \* number of invocations started
    now,              \* the system clock, in seconds since the epoch
    WATCHERS,         \* the registry of active watchers: Option<HashMap<watch id, watcher>>
    watch_pc,         \* position of each start_watch_folder / stop_watch_folder call
    watch_call,       \* the command, its arguments, the generated watch_id and the result
    watch_log,        \* the start and stop calls that returned, in the order of their registry access
    uuids,            \* number of watch ids generated
    watch_calls,      \* number of watcher commands invoked
    rename_call,      \* the last rename_file call: arguments and result
    renames           \* number of rename_file calls

vars == <<fs, pc, args, parsed, entry, latest_version, paper, file_stem, pdf_bytes, result,
          http, calls, stages, metadata_text, last_writer, downloaded, partial, imports, now,
          WATCHERS, watch_pc, watch_call, watch_log, uuids, watch_calls, rename_call, renames>>

\* the state of the watcher and rename commands
utility_vars == <<WATCHERS, watch_pc, watch_call, watch_log, uuids, watch_calls, rename_call, renames>>

\* the state of import_arxiv_paper, the file system apart
import_vars ==
    <<pc, args, parsed, entry, latest_version, paper, file_stem, pdf_bytes, result, http, calls, stages,
      metadata_text, last_writer, downloaded, partial, imports, now>>

NoArgs == [input_url_or_id |-> "", target_dir |-> "", conflict_policy |-> ""]
NoHttp == [meta |-> "none", meta_status |-> 0, pdf |-> "none", pdf_status |-> 0]
NoCalls == [meta_get |-> 0, pdf_get |-> 0, exists |-> 0, mkdir |-> 0, write |-> 0]

InitialFiles == "/notes.txt" :> FileNode("notes")

\* static WATCHERS: Mutex<Option<HashMap<..>>> = Mutex::new(None), line 159
NoWatchers == [some |-> FALSE, map |-> <<>>]

NoWatchCall == [op |-> "", folder_path |-> "", recursive |-> FALSE, watch_id |-> "", ok |-> FALSE, value |-> ""]

NoRenameCall == [old_path |-> "", new_name |-> "", ok |-> FALSE, value |-> ""]

\* no watcher or rename command has been invoked
InitUtilities ==
    /\ WATCHERS = NoWatchers
    /\ watch_pc = [p \in Procs |-> "idle"]
    /\ watch_call = [p \in Procs |-> NoWatchCall]
    /\ watch_log = <<>>
    /\ uuids = 0
    /\ watch_calls = 0
    /\ rename_call = NoRenameCall
    /\ renames = 0

\* no import has been invoked
InitImports ==
    /\ pc = [p \in Procs |-> "idle"]
    /\ args = [p \in Procs |-> NoArgs]
    /\ parsed = [p \in Procs |-> NoParse]
    /\ entry = [p \in Procs |-> NoEntry]
    /\ latest_version = [p \in Procs |-> 1]
    /\ paper = [p \in Procs |-> NonePaper]
    /\ file_stem = [p \in Procs |-> ""]
    /\ pdf_bytes = [p \in Procs |-> ""]
    /\ result = [p \in Procs |-> NoResult]
    /\ http = [p \in Procs |-> NoHttp]
    /\ calls = [p \in Procs |-> NoCalls]
    /\ stages = [p \in Procs |-> <<>>]
    /\ metadata_text = [p \in Procs |-> ""]
    /\ last_writer = <<>>
    /\ downloaded = <<>>
    /\ partial = {}
    /\ imports = 0
    /\ now = 1

Init == fs = InitialFiles /\ InitImports /\ InitUtilities

(***************************************************************************)
(* import_arxiv_paper                                                      *)
(***************************************************************************)
\* variant: the "overwrite" policy is let through as well
PolicySupportedOrOverwrite(conflict_policy) == conflict_policy \in {"skip", "overwrite"}

\* line 413: the only supported conflict policy
PolicySupported(conflict_policy) == conflict_policy = "skip"

\* variant: the identifier is parsed before the policy is validated
EarlyOutcomeParseFirst(input_url_or_id, target_dir, conflict_policy) ==
    IF ~parse_arxiv_input(input_url_or_id).ok
    THEN [stages |-> <<"policy", "parse">>, reason |-> "invalid_link"]
    ELSE IF conflict_policy # "skip"
    THEN [stages |-> <<"policy">>, reason |-> "invalid_conflict_policy"]
    ELSE IF Len(Trim(target_dir)) = 0
    THEN [stages |-> <<"policy", "parse", "target_dir">>, reason |-> "write_failed"]
    ELSE [stages |-> <<"policy", "parse">>, reason |-> ""]

\* lines 413-425, the checks made before any I/O: the stages gone through
\* and the reason of the early return ("" when the pipeline goes on)
EarlyOutcome(input_url_or_id, target_dir, conflict_policy) ==
    IF ~PolicySupported(conflict_policy)
    THEN [stages |-> <<"policy">>, reason |-> "invalid_conflict_policy"]
    ELSE IF ~parse_arxiv_input(input_url_or_id).ok
    THEN [stages |-> <<"policy", "parse">>, reason |-> "invalid_link"]
    ELSE IF Len(Trim(target_dir)) = 0
    THEN [stages |-> <<"policy", "parse", "target_dir">>, reason |-> "write_failed"]
    ELSE [stages |-> <<"policy", "parse">>, reason |-> ""]

\* variant: the metadata fetch maps 404 the way the PDF fetch does
MetaStatusReasonWith404(status) == IF status = 404 THEN "paper_not_found" ELSE "network_error"

\* lines 459-465: a non-success status of the metadata response
MetaStatusReason(status) == "network_error"

\* variant: the PDF fetch reports the status code itself as the reason
PdfStatusReasonWithCode(status) == "http_" \o ToString(status)

\* lines 578-585: a non-success status of the PDF response
PdfStatusReason(status) == IF status = 404 THEN "paper_not_found" ELSE "network_error"

\* variant: the conflict check is skipped
ConflictNeverFound(files, conflict_policy, pdf_path) == FALSE

\* variant: the check lets an import through when the sidecar is missing
ConflictFoundWithSidecar(files, conflict_policy, pdf_path) ==
    /\ conflict_policy = "skip"
    /\ Exists(files, pdf_path)
    /\ Exists(files, SubSeq(pdf_path, 1, Len(pdf_path) - 4) \o ".metadata.json")

\* line 555: the conflict check
ConflictFound(files, conflict_policy, pdf_path) == conflict_policy = "skip" /\ Exists(files, pdf_path)

\* variant: the file_exists result never reports the sidecar
FileExistsResultWithoutSidecar(files, pdf_path, metadata_path, resolved) ==
    [status |-> "skipped",
     reason |-> SomeStr("file_exists"),
     pdf_path |-> SomeStr(pdf_path),
     pdf_size |-> NoneU32,
     metadata_path |-> NoneStr,
     paper |-> SomePaper(resolved)]

\* variant: the file_exists result reports the sidecar path without looking
FileExistsResultAlwaysSidecar(files, pdf_path, metadata_path, resolved) ==
    [status |-> "skipped",
     reason |-> SomeStr("file_exists"),
     pdf_path |-> SomeStr(pdf_path),
     pdf_size |-> NoneU32,
     metadata_path |-> SomeStr(metadata_path),
     paper |-> SomePaper(resolved)]

\* lines 556-567: the file_exists result
FileExistsResult(files, pdf_path, metadata_path, resolved) ==
    [status |-> "skipped",
     reason |-> SomeStr("file_exists"),
     pdf_path |-> SomeStr(pdf_path),
     pdf_size |-> NoneU32,
     metadata_path |-> IF Exists(files, metadata_path) THEN SomeStr(metadata_path) ELSE NoneStr,
     paper |-> SomePaper(resolved)]

\* lines 624-631: the downloaded result
DownloadedResult(pdf_path, bytes, metadata_path, resolved) ==
    [status |-> "downloaded",
     reason |-> NoneStr,
     pdf_path |-> SomeStr(pdf_path),
     pdf_size |-> SomeU32(Len(bytes)),
     metadata_path |-> SomeStr(metadata_path),
     paper |-> SomePaper(resolved)]

\* lines 600-615: the sidecar JSON text
MetadataJson(resolved, downloaded_at, pdf_path) ==
    "{source:arxiv,arxiv_id:" \o resolved.arxiv_id \o ",version:" \o ToString(resolved.version)
    \o ",title:" \o resolved.title \o ",abs_url:" \o resolved.abs_url \o ",pdf_url:" \o resolved.pdf_url
    \o ",downloaded_at:" \o downloaded_at \o ",pdf_path:" \o pdf_path \o "}"

\* lines 488-553: version resolution, the paper and the file stem
ResolveMetadata(first, base_id, requested_version) ==
    Bind(ResolveLatestVersion(first, base_id), LAMBDA latest :
        Bind(BuildPaper(first, base_id, EffectiveVersion(requested_version, latest)), LAMBDA resolved :
            [latest_version |-> latest, paper |-> resolved, file_stem |-> FileStem(resolved)]))

\* the pure functions of the pipeline on the inputs of the model, tabulated
\* (@@ <<>> turns the table into an explicit function)
EarlyMemo ==
    [a \in (Inputs \X TargetDirs \X Policies) \cup ((ParserIds \cup UrlInputs) \X {"/papers"} \X {"skip"}) |->
        EarlyOutcome(a[1], a[2], a[3])] @@ <<>>

ParseMemo == [input \in Inputs \cup ParserIds \cup UrlInputs |-> parse_arxiv_input(input)] @@ <<>>

ResolveMemo ==
    [a \in Entries \X {ParseMemo[input] : input \in Inputs} |-> ResolveMetadata(a[1], a[2].base, a[2].version)] @@ <<>>

\* variant: a request that fails with a network error is issued again
ReturnWithRetry(p, value) ==
    IF value.reason = SomeStr("network_error") /\ Len(stages[p]) < 6
    THEN pc' = pc /\ result' = result
    ELSE pc' = [pc EXCEPT ![p] = "done"] /\ result' = [result EXCEPT ![p] = Ok(value)]

\* return Ok(value)
Return(p, value) ==
    /\ pc' = [pc EXCEPT ![p] = "done"]
    /\ result' = [result EXCEPT ![p] = Ok(value)]

Bump(p, field) == calls' = [calls EXCEPT ![p][field] = @ + 1]

\* the command is invoked with arguments from the given sets; lines 408-425
Invoke(p, inputs, dirs, policies) ==
    /\ pc[p] = "idle"
    /\ imports < MaxImports
    /\ \E input \in inputs, dir \in dirs, policy \in policies :
        LET early == EarlyMemo[<<input, dir, policy>>]
        IN  /\ args' = [args EXCEPT ![p] = [input_url_or_id |-> input, target_dir |-> dir, conflict_policy |-> policy]]
            /\ stages' = [stages EXCEPT ![p] = early.stages]
            /\ IF early.reason # ""
               THEN /\ Return(p, skipped_result(early.reason, NonePaper))
                    /\ parsed' = [parsed EXCEPT ![p] = NoParse]
               ELSE /\ pc' = [pc EXCEPT ![p] = "prepare_dir"]
                    /\ result' = [result EXCEPT ![p] = NoResult]
                    /\ parsed' = [parsed EXCEPT ![p] = ParseMemo[input]]
    /\ imports' = imports + 1
    /\ entry' = [entry EXCEPT ![p] = NoEntry]
    /\ latest_version' = [latest_version EXCEPT ![p] = 1]
    /\ paper' = [paper EXCEPT ![p] = NonePaper]
    /\ file_stem' = [file_stem EXCEPT ![p] = ""]
    /\ pdf_bytes' = [pdf_bytes EXCEPT ![p] = ""]
    /\ http' = [http EXCEPT ![p] = NoHttp]
    /\ calls' = [calls EXCEPT ![p] = NoCalls]
    /\ metadata_text' = [metadata_text EXCEPT ![p] = ""]
    /\ UNCHANGED <<fs, last_writer, downloaded, partial, now>>
    /\ UNCHANGED utility_vars

\* lines 427-436: create the target directory when it is missing
PrepareTargetDir(p) ==
    /\ pc[p] = "prepare_dir"
    /\ stages' = [stages EXCEPT ![p] = Append(@, "target_dir")]
    /\ LET target == args[p].target_dir
       IN  \/ /\ Exists(fs, target)
              /\ Bump(p, "exists")
              /\ UNCHANGED fs
              /\ IF IsDir(fs, target)
                 THEN pc' = [pc EXCEPT ![p] = "fetch_metadata"] /\ UNCHANGED result
                 ELSE Return(p, skipped_result("write_failed", NonePaper))
           \/ /\ ~Exists(fs, target)                       \* create_dir_all succeeds
              /\ calls' = [calls EXCEPT ![p].exists = @ + 1, ![p].mkdir = @ + 1]
              /\ fs' = CreateDirAll(fs, target)
              /\ pc' = [pc EXCEPT ![p] = "fetch_metadata"]
              /\ UNCHANGED result
           \/ /\ ~Exists(fs, target)                       \* create_dir_all fails
              /\ calls' = [calls EXCEPT ![p].exists = @ + 1, ![p].mkdir = @ + 1]
              /\ UNCHANGED fs
              /\ Return(p, skipped_result("write_failed", NonePaper))
    /\ UNCHANGED <<args, parsed, entry, latest_version, paper, file_stem, pdf_bytes, http,
                   metadata_text, last_writer, downloaded, partial, imports, now>>
    /\ UNCHANGED utility_vars

\* lines 438-553: build the client, GET the feed, decode it, resolve the
\* version and build the paper and the file stem
FetchMetadata(p) ==
    /\ pc[p] = "fetch_metadata"
    /\ stages' = [stages EXCEPT ![p] = Append(@, "metadata")]
    /\ \/ /\ http' = [http EXCEPT ![p].meta = "client_error"]       \* Client::builder fails
          /\ Return(p, skipped_result("network_error", NonePaper))
          /\ UNCHANGED <<calls, entry, latest_version, paper, file_stem>>
       \/ /\ http' = [http EXCEPT ![p].meta = "send_error"]         \* send fails
          /\ Bump(p, "meta_get")
          /\ Return(p, skipped_result("network_error", NonePaper))
          /\ UNCHANGED <<entry, latest_version, paper, file_stem>>
       \/ \E status \in Statuses :                                  \* non-success status
          /\ ~IsSuccess(status)
          /\ http' = [http EXCEPT ![p].meta = "status", ![p].meta_status = status]
          /\ Bump(p, "meta_get")
          /\ Return(p, skipped_result(MetaStatusReason(status), NonePaper))
          /\ UNCHANGED <<entry, latest_version, paper, file_stem>>
       \/ \E status \in Statuses :                                  \* reading the body fails
          /\ IsSuccess(status)
          /\ http' = [http EXCEPT ![p].meta = "body_error", ![p].meta_status = status]
          /\ Bump(p, "meta_get")
          /\ Return(p, skipped_result("network_error", NonePaper))
          /\ UNCHANGED <<entry, latest_version, paper, file_stem>>
       \/ \E status \in Statuses, feed \in FeedBodies :
          /\ IsSuccess(status)
          /\ Bump(p, "meta_get")
          /\ IF ~feed.decodes
             THEN /\ http' = [http EXCEPT ![p].meta = "undecodable", ![p].meta_status = status]
                  /\ Return(p, skipped_result("paper_not_found", NonePaper))
                  /\ UNCHANGED <<entry, latest_version, paper, file_stem>>
             ELSE IF Len(feed.entry) = 0
             THEN /\ http' = [http EXCEPT ![p].meta = "no_entry", ![p].meta_status = status]
                  /\ Return(p, skipped_result("paper_not_found", NonePaper))
                  /\ UNCHANGED <<entry, latest_version, paper, file_stem>>
             ELSE LET first == Head(feed.entry)
                      meta == ResolveMemo[<<first, parsed[p]>>]
                  IN  /\ http' = [http EXCEPT ![p].meta = "ok", ![p].meta_status = status]
                      /\ entry' = [entry EXCEPT ![p] = first]
                      /\ latest_version' = [latest_version EXCEPT ![p] = meta.latest_version]
                      /\ paper' = [paper EXCEPT ![p] = SomePaper(meta.paper)]
                      /\ file_stem' = [file_stem EXCEPT ![p] = meta.file_stem]
                      /\ pc' = [pc EXCEPT ![p] = "conflict_check"]
                      /\ UNCHANGED result
    /\ UNCHANGED <<fs, args, parsed, pdf_bytes, metadata_text, last_writer, downloaded, partial, imports, now>>
    /\ UNCHANGED utility_vars

pdf_path(p) == PdfPath(args[p].target_dir, file_stem[p])

metadata_path(p) == MetadataPath(args[p].target_dir, file_stem[p])

\* lines 555-568: the conflict check under the "skip" policy
ConflictCheck(p) ==
    /\ pc[p] = "conflict_check"
    /\ stages' = [stages EXCEPT ![p] = Append(@, "conflict")]
    /\ IF ConflictFound(fs, args[p].conflict_policy, pdf_path(p))
       THEN /\ Return(p, FileExistsResult(fs, pdf_path(p), metadata_path(p), paper[p].val))
            /\ calls' = [calls EXCEPT ![p].exists = @ + 2]
       ELSE /\ pc' = [pc EXCEPT ![p] = "download_pdf"]
            /\ Bump(p, "exists")
            /\ UNCHANGED result
    /\ entry' = [entry EXCEPT ![p] = NoEntry]                  \* moved out of at lines 518-536
    /\ UNCHANGED <<fs, args, parsed, latest_version, paper, file_stem, pdf_bytes, http,
                   metadata_text, last_writer, downloaded, partial, imports, now>>
    /\ UNCHANGED utility_vars

\* lines 570-593: GET the PDF and read its bytes
DownloadPdf(p) ==
    /\ pc[p] = "download_pdf"
    /\ stages' = [stages EXCEPT ![p] = Append(@, "download")]
    /\ Bump(p, "pdf_get")
    /\ \/ /\ http' = [http EXCEPT ![p].pdf = "send_error"]
          /\ Return(p, skipped_result("network_error", paper[p]))
          /\ UNCHANGED pdf_bytes
       \/ \E status \in Statuses :
          /\ ~IsSuccess(status)
          /\ http' = [http EXCEPT ![p].pdf = "status", ![p].pdf_status = status]
          /\ Return(p, skipped_result(PdfStatusReason(status), paper[p]))
          /\ UNCHANGED pdf_bytes
       \/ \E status \in Statuses :
          /\ IsSuccess(status)
          /\ http' = [http EXCEPT ![p].pdf = "body_error", ![p].pdf_status = status]
          /\ Return(p, skipped_result("network_error", paper[p]))
          /\ UNCHANGED pdf_bytes
       \/ \E status \in Statuses, bytes \in PdfBodies :
          /\ IsSuccess(status)
          /\ http' = [http EXCEPT ![p].pdf = "ok", ![p].pdf_status = status]
          /\ pdf_bytes' = [pdf_bytes EXCEPT ![p] = bytes]
          /\ pc' = [pc EXCEPT ![p] = "write_pdf"]
          /\ UNCHANGED result
    /\ UNCHANGED <<fs, args, parsed, entry, latest_version, paper, file_stem,
                   metadata_text, last_writer, downloaded, partial, imports, now>>
    /\ UNCHANGED utility_vars

\* lines 595-598: write the PDF
WritePdf(p) ==
    /\ pc[p] = "write_pdf"
    /\ stages' = [stages EXCEPT ![p] = Append(@, "write_pdf")]
    /\ Bump(p, "write")
    /\ \/ /\ fs' = WriteFile(fs, pdf_path(p), pdf_bytes[p])
          /\ last_writer' = (pdf_path(p) :> p) @@ last_writer
          /\ pc' = [pc EXCEPT ![p] = "write_sidecar"]
          /\ UNCHANGED result
       \/ /\ fs' \in FailedWrites(fs, pdf_path(p), pdf_bytes[p])
          /\ Return(p, skipped_result("write_failed", paper[p]))
          /\ UNCHANGED last_writer
    /\ UNCHANGED <<args, parsed, entry, latest_version, paper, file_stem, pdf_bytes, http,
                   metadata_text, downloaded, partial, imports, now>>
    /\ UNCHANGED utility_vars

\* lines 600-631: serialize and write the sidecar, return the downloaded result
WriteSidecar(p) ==
    /\ pc[p] = "write_sidecar"
    /\ stages' = [stages EXCEPT ![p] = Append(@, "write_sidecar")]
    /\ now' = now + 1                                            \* the clock is read, time passes
    /\ \/ /\ Return(p, skipped_result("write_failed", paper[p]))   \* to_string_pretty fails
          /\ UNCHANGED <<fs, calls, metadata_text, last_writer, downloaded>>
          /\ partial' = partial \cup {pdf_path(p)}
       \/ LET downloaded_at == unix_timestamp_string(now)
              text == MetadataJson(paper[p].val, downloaded_at, pdf_path(p))
          IN  /\ Bump(p, "write")
              /\ \/ /\ fs' = WriteFile(fs, metadata_path(p), text)
                    /\ last_writer' = (metadata_path(p) :> p) @@ last_writer
                    /\ metadata_text' = [metadata_text EXCEPT ![p] = text]
                    /\ downloaded' =
                         IF pdf_path(p) \in DOMAIN downloaded THEN downloaded
                         ELSE (pdf_path(p) :> [pdf |-> pdf_bytes[p], metadata_path |-> metadata_path(p),
                                              metadata |-> text, at |-> imports])
                              @@ downloaded
                    /\ Return(p, DownloadedResult(pdf_path(p), pdf_bytes[p], metadata_path(p), paper[p].val))
                    /\ UNCHANGED partial
                 \/ /\ fs' \in FailedWrites(fs, metadata_path(p), text)
                    /\ Return(p, skipped_result("write_failed", paper[p]))
                    /\ UNCHANGED <<metadata_text, last_writer, downloaded>>
                    /\ partial' = partial \cup {pdf_path(p)}
    /\ UNCHANGED <<args, parsed, entry, latest_version, paper, file_stem, pdf_bytes, http, imports>>
    /\ UNCHANGED utility_vars

\* the caller has received the result; the slot is free for the next invocation
Complete(p) ==
    /\ pc[p] = "done"
    /\ pc' = [pc EXCEPT ![p] = "idle"]
    /\ args' = [args EXCEPT ![p] = NoArgs]
    /\ parsed' = [parsed EXCEPT ![p] = NoParse]
    /\ entry' = [entry EXCEPT ![p] = NoEntry]
    /\ latest_version' = [latest_version EXCEPT ![p] = 1]
    /\ paper' = [paper EXCEPT ![p] = NonePaper]
    /\ file_stem' = [file_stem EXCEPT ![p] = ""]
    /\ pdf_bytes' = [pdf_bytes EXCEPT ![p] = ""]
    /\ result' = [result EXCEPT ![p] = NoResult]
    /\ http' = [http EXCEPT ![p] = NoHttp]
    /\ calls' = [calls EXCEPT ![p] = NoCalls]
    /\ stages' = [stages EXCEPT ![p] = <<>>]
    /\ metadata_text' = [metadata_text EXCEPT ![p] = ""]
    /\ UNCHANGED <<fs, last_writer, downloaded, partial, imports, now>>
    /\ UNCHANGED utility_vars

\* the steps of a running invocation
Run(p) ==
    \/ PrepareTargetDir(p)
    \/ FetchMetadata(p)
    \/ ConflictCheck(p)
    \/ DownloadPdf(p)
    \/ WritePdf(p)
    \/ WriteSidecar(p)
    \/ Complete(p)

\* a single caller that awaits each result before the next invocation, with
\* any arguments
Caller == "p1"

Begin(p) == Invoke(p, Inputs, TargetDirs, Policies)

Next == Begin(Caller) \/ Run(Caller)

Spec == Init /\ [][Next]_vars

\* invocations running concurrently, interleaved at their I/O calls, with
\* arguments that pass the checks of lines 413-425
ConcInputs == {"2301.12345"}

BeginConc(p) == Invoke(p, ConcInputs, {"/papers"}, {"skip"})

NextConc == \E p \in Procs : BeginConc(p) \/ Run(p)

SpecConc == Init /\ [][NextConc]_vars

\* the parser applied to a bare identifier by one invocation and to a URL by
\* another: the first step of each, lines 408-425
BeginPlain == Invoke("p1", ParserIds, {"/papers"}, {"skip"})

BeginUrl == Invoke("p2", UrlInputs, {"/papers"}, {"skip"})

NextParse == BeginPlain \/ BeginUrl

SpecParse == Init /\ [][NextParse]_vars

\* the file stem of a paper with any title: an invocation taken at line 550
InitSanitize ==
    \E title \in Titles :
        /\ fs = InitialFiles
        /\ pc = [p \in Procs |-> IF p = Caller THEN "file_stem" ELSE "idle"]
        /\ args = [p \in Procs |-> IF p = Caller
                                    THEN [input_url_or_id |-> "2301.12345v1", target_dir |-> "/papers",
                                          conflict_policy |-> "skip"]
                                    ELSE NoArgs]
        /\ parsed = [p \in Procs |-> IF p = Caller THEN [ok |-> TRUE, base |-> "2301.12345", version |-> SomeU32(1)]
                                      ELSE NoParse]
        /\ entry = [p \in Procs |-> NoEntry]
        /\ latest_version = [p \in Procs |-> 1]
        /\ paper = [p \in Procs |-> IF p = Caller THEN SomePaper(TitledPaper(title)) ELSE NonePaper]
        /\ file_stem = [p \in Procs |-> ""]
        /\ pdf_bytes = [p \in Procs |-> ""]
        /\ result = [p \in Procs |-> NoResult]
        /\ http = [p \in Procs |-> NoHttp]
        /\ calls = [p \in Procs |-> NoCalls]
        /\ stages = [p \in Procs |-> <<>>]
        /\ metadata_text = [p \in Procs |-> ""]
        /\ last_writer = <<>>
        /\ downloaded = <<>>
        /\ partial = {}
        /\ imports = 1
        /\ now = 1
        /\ InitUtilities

\* lines 550-551: the file stem
ComputeFileStem(p) ==
    /\ pc[p] = "file_stem"
    /\ file_stem' = [file_stem EXCEPT ![p] = FileStem(paper[p].val)]
    /\ pc' = [pc EXCEPT ![p] = "conflict_check"]
    /\ UNCHANGED <<fs, args, parsed, entry, latest_version, paper, pdf_bytes, result, http, calls, stages,
                   metadata_text, last_writer, downloaded, partial, imports, now>>
    /\ UNCHANGED utility_vars

NextSanitize == ComputeFileStem(Caller)

SpecSanitize == InitSanitize /\ [][NextSanitize]_vars

\* the version resolution on any first entry: an invocation for "2301.12345"
\* taken at line 488, the feed decoded
InitResolve ==
    \E first \in ResolveEntries :
        /\ fs = InitialFiles
        /\ pc = [p \in Procs |-> IF p = Caller THEN "resolve" ELSE "idle"]
        /\ args = [p \in Procs |-> IF p = Caller
                                    THEN [input_url_or_id |-> "2301.12345", target_dir |-> "/papers",
                                          conflict_policy |-> "skip"]
                                    ELSE NoArgs]
        /\ parsed = [p \in Procs |-> IF p = Caller THEN [ok |-> TRUE, base |-> "2301.12345", version |-> NoneU32]
                                      ELSE NoParse]
        /\ entry = [p \in Procs |-> IF p = Caller THEN first ELSE NoEntry]
        /\ latest_version = [p \in Procs |-> 1]
        /\ paper = [p \in Procs |-> NonePaper]
        /\ file_stem = [p \in Procs |-> ""]
        /\ pdf_bytes = [p \in Procs |-> ""]
        /\ result = [p \in Procs |-> NoResult]
        /\ http = [p \in Procs |-> IF p = Caller THEN [NoHttp EXCEPT !.meta = "ok", !.meta_status = 200] ELSE NoHttp]
        /\ calls = [p \in Procs |-> NoCalls]
        /\ stages = [p \in Procs |-> <<>>]
        /\ metadata_text = [p \in Procs |-> ""]
        /\ last_writer = <<>>
        /\ downloaded = <<>>
        /\ partial = {}
        /\ imports = 1
        /\ now = 1
        /\ InitUtilities

\* lines 488-553: the latest version, the paper and the file stem
ResolveVersion(p) ==
    /\ pc[p] = "resolve"
    /\ LET meta == ResolveMetadata(entry[p], parsed[p].base, parsed[p].version)
       IN  /\ latest_version' = [latest_version EXCEPT ![p] = meta.latest_version]
           /\ paper' = [paper EXCEPT ![p] = SomePaper(meta.paper)]
           /\ file_stem' = [file_stem EXCEPT ![p] = meta.file_stem]
    /\ pc' = [pc EXCEPT ![p] = "conflict_check"]
    /\ UNCHANGED <<fs, args, parsed, entry, pdf_bytes, result, http, calls, stages,
                   metadata_text, last_writer, downloaded, partial, imports, now>>
    /\ UNCHANGED utility_vars

NextResolve == ResolveVersion(Caller)

SpecResolve == InitResolve /\ [][NextResolve]_vars

(***************************************************************************)
(* start_watch_folder, stop_watch_folder                                   *)
(***************************************************************************)
\* number of watcher commands invoked in a behaviour
MaxWatchCalls == 3

\* a directory with files in it, next to the regular file "/notes.txt"
UtilityFiles ==
    ("/docs" :> DirNode) @@ ("/docs/a.pdf" :> FileNode("A")) @@ ("/docs/b.pdf" :> FileNode("B"))
    @@ ("/docs/notes" :> FileNode("N")) @@ ("/docs/sub" :> DirNode) @@ InitialFiles

WatchFolders == {"/docs", "/notes.txt", "/missing"}

\* uuid::Uuid::new_v4().to_string(): the n-th id generated differs from the ones before
Uuid(n) == "uuid-" \o ToString(n)

\* the ids a stop_watch_folder call can name
WatchIds == {Uuid(n) : n \in 1..MaxWatchCalls} \cup {"unknown"}

\* lines 291-298: the map is created on first use, then HashMap::insert
InsertWatcher(watchers, watch_id, watcher) == [some |-> TRUE, map |-> (watch_id :> watcher) @@ watchers.map]

\* line 310-311: watchers.as_mut() is Some and the map has the key
HasWatcher(watchers, watch_id) == watchers.some /\ watch_id \in DOMAIN watchers.map

\* variant: the whole map is cleared
RemoveEveryWatcher(watchers, watch_id) == [some |-> watchers.some, map |-> <<>>]

\* line 311: HashMap::remove
RemoveWatcher(watchers, watch_id) ==
    [some |-> watchers.some,
     map |-> IF DOMAIN watchers.map \subseteq {watch_id} THEN <<>>
             ELSE [id \in DOMAIN watchers.map \ {watch_id} |-> watchers.map[id]]]

\* the command returns Ok(value) or Err(value)
WatchResult(p, call, ok, value) ==
    /\ watch_pc' = [watch_pc EXCEPT ![p] = "done"]
    /\ watch_call' = [watch_call EXCEPT ![p] = [call EXCEPT !.ok = ok, !.value = value]]

\* lines 230-288: the path checks, the id, the watcher and watcher.watch(),
\* all before the registry is locked
StartWatchSetup(p) ==
    /\ watch_pc[p] = "idle"
    /\ watch_calls < MaxWatchCalls
    /\ watch_calls' = watch_calls + 1
    /\ \E folder_path \in WatchFolders, recursive \in BOOLEAN :
        LET call == [op |-> "start", folder_path |-> folder_path, recursive |-> recursive,
                     watch_id |-> "", ok |-> FALSE, value |-> ""]
        IN  IF ~Exists(fs, folder_path)
            THEN WatchResult(p, call, FALSE, "Directory does not exist: " \o folder_path) /\ UNCHANGED uuids
            ELSE IF ~IsDir(fs, folder_path)
            THEN WatchResult(p, call, FALSE, "Path is not a directory: " \o folder_path) /\ UNCHANGED uuids
            ELSE /\ uuids' = uuids + 1
                 /\ \/ WatchResult(p, call, FALSE, "Failed to create watcher")
                    \/ WatchResult(p, call, FALSE, "Failed to start watching")
                    \/ /\ watch_pc' = [watch_pc EXCEPT ![p] = "register"]
                       /\ watch_call' = [watch_call EXCEPT ![p] = [call EXCEPT !.watch_id = Uuid(uuids + 1)]]
    /\ UNCHANGED <<fs, import_vars, WATCHERS, watch_log, rename_call, renames>>

\* lines 290-304: lock the registry, insert the watcher, return the id
StartWatchRegister(p) ==
    /\ watch_pc[p] = "register"
    /\ WATCHERS' = InsertWatcher(WATCHERS, watch_call[p].watch_id, watch_call[p].folder_path)
    /\ WatchResult(p, watch_call[p], TRUE, watch_call[p].watch_id)
    /\ watch_log' = Append(watch_log, [op |-> "start", watch_id |-> watch_call[p].watch_id, ok |-> TRUE])
    /\ UNCHANGED <<fs, import_vars, uuids, watch_calls, rename_call, renames>>

\* lines 307-318: stop_watch_folder, the whole of it under the lock
StopWatch(p) ==
    /\ watch_pc[p] = "idle"
    /\ watch_calls < MaxWatchCalls
    /\ watch_calls' = watch_calls + 1
    /\ \E watch_id \in WatchIds :
        LET call == [op |-> "stop", folder_path |-> "", recursive |-> FALSE, watch_id |-> watch_id,
                     ok |-> FALSE, value |-> ""]
        IN  IF HasWatcher(WATCHERS, watch_id)
            THEN /\ WATCHERS' = RemoveWatcher(WATCHERS, watch_id)
                 /\ WatchResult(p, call, TRUE, "")
                 /\ watch_log' = Append(watch_log, [op |-> "stop", watch_id |-> watch_id, ok |-> TRUE])
            ELSE /\ UNCHANGED WATCHERS
                 /\ WatchResult(p, call, FALSE, "Watcher with ID " \o watch_id \o " not found")
                 /\ watch_log' = Append(watch_log, [op |-> "stop", watch_id |-> watch_id, ok |-> FALSE])
    /\ UNCHANGED <<fs, import_vars, uuids, rename_call, renames>>

\* the caller has received the result of the watcher command
WatchReturn(p) ==
    /\ watch_pc[p] = "done"
    /\ watch_pc' = [watch_pc EXCEPT ![p] = "idle"]
    /\ watch_call' = [watch_call EXCEPT ![p] = NoWatchCall]
    /\ UNCHANGED <<fs, import_vars, WATCHERS, watch_log, uuids, watch_calls, rename_call, renames>>

InitWatch == fs = UtilityFiles /\ InitImports /\ InitUtilities

\* watcher commands invoked concurrently
NextWatch ==
    \E p \in Procs : StartWatchSetup(p) \/ StartWatchRegister(p) \/ StopWatch(p) \/ WatchReturn(p)

SpecWatch == InitWatch /\ [][NextWatch]_vars

(***************************************************************************)
(* rename_file                                                             *)
(***************************************************************************)
\* number of rename_file calls in a behaviour
MaxRenames == 2

RenameSources == {"/docs/a.pdf", "/docs/notes", "/docs/sub", "/docs/missing.pdf"}

NewNames == {"a", "b", "c", "sub", "x/y"}

IsFile(files, path) == Exists(files, path) /\ files[path].kind = "file"

\* Path::file_name for a path that does not end with "/", "." or ".."
FileName(path) == Drop(path, LastOf(path, "/"))

\* Path::parent: None for the root and for the empty path
Parent(path) ==
    Bind(LastOf(path, "/"), LAMBDA slash :
        IF Len(path) = 0 \/ path = "/" THEN NoneStr
        ELSE IF slash = 0 THEN SomeStr("")
        ELSE IF slash = 1 THEN SomeStr("/")
        ELSE SomeStr(Take(path, slash - 1)))

\* Path::extension: what follows the last "." of the file name, None when the
\* name has no "." or only a leading one
Extension(path) ==
    Bind(FileName(path), LAMBDA name :
        Bind(LastOf(name, "."), LAMBDA dot : IF dot <= 1 THEN NoneStr ELSE SomeStr(Drop(name, dot))))

\* Path::join: an absolute name replaces the base
JoinPath(base, name) ==
    IF StartsWith(name, "/") \/ Len(base) = 0 THEN name
    ELSE IF EndsWith(base, "/") THEN base \o name
    ELSE base \o "/" \o name

\* lines 383-387
NewFilename(new_name, extension) == IF extension.some THEN new_name \o "." \o extension.val ELSE new_name

\* variant: only a directory at the destination stops the rename
DestinationIsDirectory(files, new_path) == IsDir(files, new_path)

\* line 392: new_path.exists()
DestinationTaken(files, new_path) == Exists(files, new_path)

\* std::fs::rename can succeed: the directory of the destination exists and
\* the destination is not a directory
CanRename(files, from, to) ==
    /\ Parent(to).some
    /\ Parent(to).val = "/" \/ IsDir(files, Parent(to).val)
    /\ ~IsDir(files, to)

\* std::fs::rename succeeding on a file: the destination, replaced when it
\* is there, now names the file and the source is gone
Rename(files, from, to) == [path \in (DOMAIN files \ {from}) \cup {to} |-> IF path = to THEN files[from] ELSE files[path]]

RenameResult(old_path, new_name, ok, value) ==
    rename_call' = [old_path |-> old_path, new_name |-> new_name, ok |-> ok, value |-> value]

\* lines 360-405
RenameFile ==
    /\ renames < MaxRenames
    /\ renames' = renames + 1
    /\ \E old_path \in RenameSources, new_name \in NewNames :
        IF ~Exists(fs, old_path)
        THEN RenameResult(old_path, new_name, FALSE, "File does not exist: " \o old_path) /\ UNCHANGED fs
        ELSE IF ~IsFile(fs, old_path)
        THEN RenameResult(old_path, new_name, FALSE, "Path is not a file: " \o old_path) /\ UNCHANGED fs
        ELSE IF ~Parent(old_path).some
        THEN RenameResult(old_path, new_name, FALSE, "Could not determine parent directory") /\ UNCHANGED fs
        ELSE LET new_filename == NewFilename(new_name, Extension(old_path))
                 new_path == JoinPath(Parent(old_path).val, new_filename)
             IN  IF DestinationTaken(fs, new_path)
                 THEN /\ RenameResult(old_path, new_name, FALSE,
                                      "A file named '" \o new_filename \o "' already exists in this location")
                      /\ UNCHANGED fs
                 ELSE \/ /\ CanRename(fs, old_path, new_path)
                         /\ fs' = Rename(fs, old_path, new_path)
                         /\ RenameResult(old_path, new_name, TRUE, new_path)
                      \/ /\ RenameResult(old_path, new_name, FALSE, "Failed to rename file")
                         /\ UNCHANGED fs
    /\ UNCHANGED <<import_vars, WATCHERS, watch_pc, watch_call, watch_log, uuids, watch_calls>>

NextRename == RenameFile

SpecRename == InitWatch /\ [][NextRename]_vars

(***************************************************************************)
(* Properties                                                              *)
(***************************************************************************)
Done(p) == pc[p] = "done"

Outcome(p) == result[p].value

Skipped(p, reason) == Outcome(p).status = "skipped" /\ Outcome(p).reason = SomeStr(reason)

LastStage(p) == stages[p][Len(stages[p])]

NoNetwork(p) == calls[p].meta_get = 0 /\ calls[p].pdf_get = 0

NoFileSystem(p) == calls[p].exists = 0 /\ calls[p].mkdir = 0 /\ calls[p].write = 0

\* C1: an invocation whose conflict_policy is not "skip" returns Skipped with
\* reason invalid_conflict_policy and no paper, whatever its input and target
\* directory, having made no network request and no file system call.
C1_UnsupportedPolicy ==
    \A p \in Procs :
        Done(p) /\ args[p].conflict_policy # "skip" =>
            /\ result[p] = Ok(skipped_result("invalid_conflict_policy", NonePaper))
            /\ NoNetwork(p)
            /\ NoFileSystem(p)
            /\ stages[p] = <<"policy">>

C1_Witness ==
    \E p \in Procs :
        /\ Done(p)
        /\ args[p] = [input_url_or_id |-> "https://example.com/abs/2301.12345", target_dir |-> " ",
                      conflict_policy |-> "overwrite"]
        /\ Skipped(p, "invalid_conflict_policy")

\* C2: a Skipped outcome produced at the conflict check, the download or the
\* two writes (after metadata resolution) carries the resolved paper; a
\* Skipped outcome produced at the policy, parse, target-directory or
\* metadata stage carries no paper.
C2_PaperAfterResolution ==
    \A p \in Procs :
        Done(p) /\ Outcome(p).status = "skipped" =>
            /\ LastStage(p) \in {"conflict", "download", "write_pdf", "write_sidecar"} =>
                   /\ paper[p].some
                   /\ Outcome(p).paper = paper[p]
                   /\ Outcome(p).reason.val \in {"file_exists", "network_error", "paper_not_found", "write_failed"}
            /\ LastStage(p) \in {"policy", "parse", "target_dir", "metadata"} =>
                   /\ ~Outcome(p).paper.some
                   /\ Outcome(p).reason.val \in {"invalid_conflict_policy", "invalid_link", "write_failed",
                                                 "network_error", "paper_not_found"}

C2_Witness ==
    \E p \in Procs :
        /\ Done(p)
        /\ LastStage(p) = "download"
        /\ Skipped(p, "paper_not_found")
        /\ Outcome(p).paper.some

\* C3: the effective version is the requested version when the input carries
\* one and the resolved latest version otherwise, and the version of every
\* outcome that carries a paper is at least 1.
C3_VersionPositive ==
    \A p \in Procs :
        Done(p) /\ Outcome(p).paper.some =>
            /\ Outcome(p).paper.val.version =
                   (IF parsed[p].version.some THEN parsed[p].version.val ELSE latest_version[p])
            /\ Outcome(p).paper.val.version >= 1

\* C4: when the id of the first entry decodes to the requested base_id with
\* an explicit version N, the resolved latest version is max(N, 1), whatever
\* the links hold.
C4_IdentityPriority ==
    \A p \in Procs :
        pc[p] = "conflict_check" /\ entry[p].id.some =>
            LET decoded == parse_arxiv_input(entry[p].id.val)
            IN  decoded.ok /\ decoded.base = parsed[p].base /\ decoded.version.some =>
                    latest_version[p] = Max(decoded.version.val, 1)

ReturnedDownloaded(p) == Done(p) /\ Outcome(p).status = "downloaded"

\* C5: concurrent invocations for the same paper and directory are not
\* serialized: both can pass the existence check, write both files and return
\* Downloaded (C5_Witness), and whenever two have done so each file holds what
\* its last writer wrote.
C5_LastWriterWins ==
    \A p, q \in Procs :
        p # q /\ ReturnedDownloaded(p) /\ ReturnedDownloaded(q) /\ pdf_path(p) = pdf_path(q) =>
            /\ calls[p].write = 2 /\ calls[q].write = 2
            /\ fs[pdf_path(p)] = FileNode(pdf_bytes[last_writer[pdf_path(p)]])
            /\ fs[metadata_path(p)] = FileNode(metadata_text[last_writer[metadata_path(p)]])

C5_Witness ==
    \E p, q \in Procs :
        /\ p # q /\ ReturnedDownloaded(p) /\ ReturnedDownloaded(q)
        /\ args[p] = args[q] /\ paper[p] = paper[q]
        /\ Outcome(p).pdf_path = Outcome(q).pdf_path
        /\ metadata_text[p] # metadata_text[q]

\* C6: a conflict check that finds the PDF path existing ends the invocation
\* with file_exists and the resolved paper, changes no file, and the
\* invocation has issued no PDF request and written nothing.
C6_ConflictSkips ==
    [][\A p \in Procs :
          pc[p] = "conflict_check" /\ pc'[p] # "conflict_check" /\ Exists(fs, pdf_path(p)) =>
              /\ pc'[p] = "done"
              /\ result'[p].tag = "Ok"
              /\ result'[p].value.status = "skipped"
              /\ result'[p].value.reason = SomeStr("file_exists")
              /\ result'[p].value.paper = paper[p] /\ paper[p].some
              /\ fs' = fs
              /\ calls'[p].pdf_get = 0 /\ calls'[p].write = 0]_vars

C6_Witness ==
    \E p \in Procs :
        /\ Done(p) /\ Skipped(p, "file_exists")
        /\ Exists(fs, pdf_path(p))
        /\ Outcome(p).paper.some

\* C7: with one invocation at a time, once an import has returned Downloaded,
\* every later import that resolves to the same PDF path ends with
\* file_exists and the same pdf_path and metadata_path, and both files keep
\* the content the download left.
C7_ReimportIdempotent ==
    /\ \A path \in DOMAIN downloaded :
           /\ fs[path] = FileNode(downloaded[path].pdf)
           /\ fs[downloaded[path].metadata_path] = FileNode(downloaded[path].metadata)
    /\ \A p \in Procs :
           Done(p) /\ paper[p].some /\ pdf_path(p) \in DOMAIN downloaded /\ downloaded[pdf_path(p)].at < imports =>
               /\ Skipped(p, "file_exists")
               /\ Outcome(p).pdf_path = SomeStr(pdf_path(p))
               /\ Outcome(p).metadata_path = SomeStr(downloaded[pdf_path(p)].metadata_path)
               /\ calls[p].write = 0

C7_Witness ==
    \E p \in Procs :
        /\ Done(p) /\ Skipped(p, "file_exists")
        /\ pdf_path(p) \in DOMAIN downloaded
        /\ downloaded[pdf_path(p)].at < imports

\* the stages of the pipeline, in their fixed order
StageOrder ==
    <<"policy", "parse", "target_dir", "metadata", "conflict", "download", "write_pdf", "write_sidecar">>

IsPrefix(a, b) == Len(a) <= Len(b) /\ SubSeq(b, 1, Len(a)) = a

\* C8: the outcome is decided by the first failing stage of the fixed order:
\* the stages gone through are a prefix of the order, an unsupported policy
\* wins over an invalid input, an invalid input over a blank target
\* directory, a target-directory failure comes before any network request,
\* and Downloaded is returned only after all stages.
C8_FirstFailingStage ==
    \A p \in Procs :
        Done(p) =>
            /\ Len(stages[p]) > 0 /\ IsPrefix(stages[p], StageOrder)
            /\ args[p].conflict_policy # "skip" => Skipped(p, "invalid_conflict_policy")
            /\ args[p].conflict_policy = "skip" /\ ~ParseMemo[args[p].input_url_or_id].ok =>
                   Skipped(p, "invalid_link")
            /\ LastStage(p) = "policy" => Skipped(p, "invalid_conflict_policy")
            /\ LastStage(p) = "parse" => Skipped(p, "invalid_link")
            /\ LastStage(p) = "target_dir" => Skipped(p, "write_failed") /\ NoNetwork(p)
            /\ LastStage(p) = "metadata" =>
                   /\ Skipped(p, "network_error") \/ Skipped(p, "paper_not_found")
                   /\ calls[p].pdf_get = 0 /\ calls[p].write = 0
            /\ LastStage(p) = "conflict" => Skipped(p, "file_exists") /\ calls[p].pdf_get = 0
            /\ LastStage(p) = "download" =>
                   /\ Skipped(p, "network_error") \/ Skipped(p, "paper_not_found")
                   /\ calls[p].write = 0
            /\ LastStage(p) = "write_pdf" => Skipped(p, "write_failed")
            /\ LastStage(p) = "write_sidecar" => Skipped(p, "write_failed") \/ Outcome(p).status = "downloaded"
            /\ Outcome(p).status = "downloaded" => stages[p] = StageOrder

C8_Witness ==
    \E p \in Procs :
        /\ Done(p)
        /\ args[p] = [input_url_or_id |-> "https://example.com/abs/2301.12345", target_dir |-> " ",
                      conflict_policy |-> "skip"]
        /\ Skipped(p, "invalid_link")

SkipReasons ==
    {"invalid_conflict_policy", "invalid_link", "write_failed", "network_error", "paper_not_found", "file_exists"}

\* C9: every invocation returns Ok with a structured result: status
\* downloaded and no reason, or status skipped and a reason of the closed set.
C9_StructuredResult ==
    \A p \in Procs :
        Done(p) =>
            /\ result[p].tag = "Ok"
            /\ \/ Outcome(p).status = "downloaded" /\ ~Outcome(p).reason.some
               \/ /\ Outcome(p).status = "skipped"
                  /\ Outcome(p).reason.some
                  /\ Outcome(p).reason.val \in SkipReasons

C9_Witness ==
    \E p \in Procs :
        /\ Done(p)
        /\ http[p].pdf = "status" /\ http[p].pdf_status = 500
        /\ Skipped(p, "network_error")

\* C10: on the metadata fetch every non-2xx status, 404 included, gives
\* network_error, and paper_not_found comes only from an undecodable feed or
\* an empty entry list; on the PDF fetch 404 gives paper_not_found and every
\* other non-2xx status, transport failure or body read failure gives
\* network_error.
C10_StatusMapping ==
    \A p \in Procs :
        Done(p) =>
            /\ LastStage(p) = "metadata" =>
                   /\ http[p].meta = "status" =>
                          ~IsSuccess(http[p].meta_status) /\ Skipped(p, "network_error")
                   /\ http[p].meta \in {"client_error", "send_error", "body_error"} => Skipped(p, "network_error")
                   /\ Skipped(p, "paper_not_found") <=> http[p].meta \in {"undecodable", "no_entry"}
            /\ LastStage(p) = "download" =>
                   /\ http[p].pdf = "status" /\ http[p].pdf_status = 404 => Skipped(p, "paper_not_found")
                   /\ http[p].pdf = "status" /\ http[p].pdf_status # 404 =>
                          ~IsSuccess(http[p].pdf_status) /\ Skipped(p, "network_error")
                   /\ http[p].pdf \in {"send_error", "body_error"} => Skipped(p, "network_error")

C10_Witness ==
    \E p \in Procs :
        /\ Done(p)
        /\ LastStage(p) = "metadata"
        /\ http[p].meta = "status" /\ http[p].meta_status = 404
        /\ Skipped(p, "network_error")

Count(seq, x) == Cardinality({i \in DOMAIN seq : seq[i] = x})

MetaFailures == {"client_error", "send_error", "status", "body_error", "undecodable", "no_entry"}

PdfFailures == {"send_error", "status", "body_error"}

C11_State ==
    \A p \in Procs :
        /\ calls[p].meta_get <= 1 /\ calls[p].pdf_get <= 1
        /\ Count(stages[p], "metadata") <= 1 /\ Count(stages[p], "download") <= 1
        /\ Count(stages[p], "write_pdf") <= 1 /\ Count(stages[p], "write_sidecar") <= 1
        /\ calls[p].write <= Count(stages[p], "write_pdf") + Count(stages[p], "write_sidecar")
        /\ calls[p].pdf_get = 1 =>
               /\ calls[p].meta_get = 1 /\ http[p].meta = "ok"
               /\ IsPrefix(<<"policy", "parse", "target_dir", "metadata", "conflict", "download">>, stages[p])
        /\ http[p].meta \in MetaFailures =>
               Done(p) /\ LastStage(p) = "metadata" /\ calls[p].pdf_get = 0 /\ calls[p].write = 0
        /\ http[p].pdf \in PdfFailures => Done(p) /\ LastStage(p) = "download" /\ calls[p].write = 0
        /\ Done(p) /\ Skipped(p, "write_failed") /\ LastStage(p) = "write_pdf" => calls[p].write = 1

C11_Step ==
    \A p \in Procs :
        /\ pc'[p] = "download_pdf" /\ pc[p] # "download_pdf" =>
               pc[p] = "conflict_check" /\ ~Exists(fs, pdf_path(p)) /\ http[p].meta = "ok"
        /\ pc[p] = "done" => pc'[p] = "idle" \/ (calls'[p] = calls[p] /\ pc'[p] = "done" /\ fs' = fs)

\* C11: an invocation issues at most one metadata GET and one PDF GET and
\* writes each file at most once; the PDF GET comes only after a successful
\* metadata GET and a conflict check that found no PDF; a failed call ends the
\* invocation, which then makes no further network or file system call.
C11_NoRetry == []C11_State /\ [][C11_Step]_vars

C11_Witness ==
    \E p \in Procs :
        /\ Done(p)
        /\ http[p].pdf = "send_error" /\ Skipped(p, "network_error")
        /\ calls[p].meta_get = 1 /\ calls[p].pdf_get = 1 /\ calls[p].write = 0

\* an identifier of the legacy or the modern grammar, with or without vN
ValidIdentifier(id) ==
    \E k \in 1..Len(id) :
        /\ IsLegacyBase(SubSeq(id, 1, k)) \/ IsModernBase(SubSeq(id, 1, k))
        /\ k = Len(id) \/ (Len(id) >= k + 2 /\ CharAt(id, k + 1) = "v" /\ AllChars(Drop(id, k + 1), IsDigit))

Invoked(p) == pc[p] # "idle"

\* C12: a valid identifier parses to the same (base_id, requested version)
\* given bare and given wrapped as an abs or pdf URL of arxiv.org or
\* www.arxiv.org.
C12_WrappingInvariant ==
    Invoked("p1") /\ Invoked("p2") /\ ValidIdentifier(args["p1"].input_url_or_id)
    /\ args["p2"].input_url_or_id \in {Wrap(w, args["p1"].input_url_or_id) : w \in ArxivWrappers} =>
        /\ pc["p1"] = "prepare_dir" /\ pc["p2"] = "prepare_dir"
        /\ parsed["p1"].ok /\ parsed["p1"] = parsed["p2"]

\* the input is an absolute URL whose host is not arxiv.org or www.arxiv.org,
\* or whose path does not start with abs/ or pdf/
ForeignUrl(input) ==
    LET url == UrlParse(input)
        path == TrimStartBy(url.path, "/")
    IN  /\ url.ok
        /\ \/ ~url.host.some
           \/ ToLower(url.host.val) \notin {"arxiv.org", "www.arxiv.org"}
           \/ ~(StartsWith(path, "abs/") \/ StartsWith(path, "pdf/"))

\* C13: an absolute URL with another host than arxiv.org or www.arxiv.org, or
\* with a path that does not start with abs/ or pdf/, is not parsed, whatever
\* identifier it contains, and its import ends with invalid_link before any
\* network request or file system call.
C13_ForeignUrlRejected ==
    \A p \in Procs :
        Invoked(p) /\ ForeignUrl(args[p].input_url_or_id) =>
            /\ Done(p)
            /\ parsed[p] = NoParse
            /\ result[p] = Ok(skipped_result("invalid_link", NonePaper))
            /\ NoNetwork(p) /\ NoFileSystem(p)

C13_Witness ==
    /\ Done("p2")
    /\ args["p2"].input_url_or_id = "https://export.arxiv.org/pdf/2301.12345.pdf"
    /\ Skipped("p2", "invalid_link")

\* the part of a file stem that the title contributes (what follows
\* "<id>v<version>_")
TitlePart(p) == Drop(file_stem[p], Len(IdWithVersion(paper[p].val.arxiv_id, paper[p].val.version)) + 1)

StemComputed(p) == pc[p] = "conflict_check" /\ paper[p].some

\* C14: for every title the sanitized title is not empty ("paper" when
\* nothing is left of the title), has at most 96 characters and contains
\* neither "/" nor "\".
C14_SanitizedTitle ==
    \A p \in Procs :
        StemComputed(p) =>
            /\ Len(TitlePart(p)) >= 1
            /\ Len(TitlePart(p)) <= 96
            /\ ~Contains(TitlePart(p), "/") /\ ~Contains(TitlePart(p), "\\")
            /\ AllChars(paper[p].val.title, LAMBDA c : Contains(" \t/\\", c)) \/ paper[p].val.title \in {":?*", ".."} =>
                   TitlePart(p) = "paper"

C14_Witness ==
    \E p \in Procs :
        /\ StemComputed(p)
        /\ Len(paper[p].val.title) > 96 /\ Contains(paper[p].val.title, "/")
        /\ Len(TitlePart(p)) \in 90..96

Registry == IF WATCHERS.some THEN DOMAIN WATCHERS.map ELSE {}

Logged(op, watch_id) == {i \in DOMAIN watch_log : watch_log[i] = [op |-> op, watch_id |-> watch_id, ok |-> TRUE]}

StartedIds == {id \in WatchIds : Logged("start", id) # {}}

StoppedIds == {id \in WatchIds : Logged("stop", id) # {}}

C15_State ==
    /\ watch_log = <<>> => Registry = {}
    /\ Registry = StartedIds \ StoppedIds
    /\ \A id \in WatchIds :
        /\ Cardinality(Logged("start", id)) <= 1
        /\ Cardinality(Logged("stop", id)) <= 1
        /\ Logged("stop", id) # {} => id \in StartedIds

C15_Step ==
    IF watch_log' = watch_log THEN WATCHERS' = WATCHERS
    ELSE LET last == watch_log'[Len(watch_log')]
         IN  /\ watch_log' = Append(watch_log, last)
             /\ last.op = "start" => last.ok /\ last.watch_id \notin Registry /\ Registry' = Registry \cup {last.watch_id}
             /\ last.op = "stop" =>
                    /\ last.ok <=> last.watch_id \in Registry
                    /\ Registry' = Registry \ {last.watch_id}

\* C15: the registry starts empty, gains the one id of each successful
\* start_watch_folder and loses an id only through a successful
\* stop_watch_folder of that id; a stop succeeds exactly when its id is
\* registered, so under any interleaving an id is stopped successfully at
\* most once and no other entry appears or disappears.
C15_Registry == []C15_State /\ [][C15_Step]_vars

C15_Witness ==
    /\ \E i, j, k \in DOMAIN watch_log :
        /\ i < j /\ j < k
        /\ watch_log[i].op = "start"
        /\ watch_log[j] = [op |-> "stop", watch_id |-> watch_log[i].watch_id, ok |-> TRUE]
        /\ watch_log[k] = [op |-> "stop", watch_id |-> watch_log[i].watch_id, ok |-> FALSE]
    /\ Registry = {}

\* the destination of a rename of a file of "/docs": the directory, the new
\* name and the extension of the source
ExpectedDestination(old_path, new_name) ==
    "/docs/" \o new_name \o (IF EndsWith(old_path, ".pdf") THEN ".pdf" ELSE "")

C16_Step ==
    renames' # renames =>
        LET call == rename_call'
            source == call.old_path
            destination == ExpectedDestination(call.old_path, call.new_name)
        IN  /\ Exists(fs, destination) => ~call.ok /\ fs' = fs
            /\ ~call.ok => fs' = fs
            /\ call.ok =>
                   /\ IsFile(fs, source) /\ ~Exists(fs, destination)
                   /\ call.value = destination
                   /\ DOMAIN fs' = (DOMAIN fs \ {source}) \cup {destination}
                   /\ fs'[destination] = fs[source]
                   /\ \A path \in DOMAIN fs \ {source} : fs'[path] = fs[path]

\* C16: rename_file returns an error and changes no file whenever the
\* destination (the directory of the source, the new name, the extension of
\* the source) exists, the source itself included; it moves the file, with
\* its extension, only when the destination is absent.
C16_NeverOverwrites == [][C16_Step]_vars

C16_Witness ==
    /\ rename_call = [old_path |-> "/docs/a.pdf", new_name |-> "b", ok |-> FALSE,
                      value |-> "A file named 'b.pdf' already exists in this location"]
    /\ fs = UtilityFiles

\* the version a reference carries when it names the paper 2301.12345 with
\* an explicit version
ExplicitVersion(href) ==
    IF href = SomeStr("http://arxiv.org/abs/2301.12345v0") THEN SomeU32(0)
    ELSE IF href = SomeStr("http://arxiv.org/abs/2301.12345v2") THEN SomeU32(2)
    ELSE IF href = SomeStr("http://arxiv.org/abs/2301.12345v3") THEN SomeU32(3)
    ELSE IF href = SomeStr("http://arxiv.org/pdf/2301.12345v4") THEN SomeU32(4)
    ELSE NoneU32

Qualifying(links) == {i \in DOMAIN links : ExplicitVersion(links[i]).some}

FirstQualifying(links) == CHOOSE i \in Qualifying(links) : \A j \in Qualifying(links) : i <= j

Resolved(p) == pc[p] = "conflict_check" /\ parsed[p].base = "2301.12345" /\ entry[p] \in ResolveEntries

\* C17: when the id of the first entry yields no version for the requested
\* paper, the latest version is max(N, 1) for the version N of the first link
\* that names the paper with an explicit version, and 1 when no link does.
C17_LinkFallback ==
    \A p \in Procs :
        Resolved(p) /\ ~ExplicitVersion(entry[p].id).some =>
            latest_version[p] =
                IF Qualifying(entry[p].link) = {} THEN 1
                ELSE Max(ExplicitVersion(entry[p].link[FirstQualifying(entry[p].link)]).val, 1)

C17_Witness ==
    \E p \in Procs :
        /\ Resolved(p)
        /\ entry[p].id = SomeStr("http://arxiv.org/abs/2301.99999v7")
        /\ entry[p].link = <<SomeStr("http://arxiv.org/abs/2301.12345v2"), SomeStr("http://arxiv.org/pdf/2301.12345v4")>>
        /\ latest_version[p] = 2

\* C18: a file_exists outcome carries the metadata path exactly when the
\* sidecar of the same stem exists at the conflict check, and in both cases
\* the path of the existing PDF and no pdf_size.
C18_Step ==
    \A p \in Procs :
        pc[p] = "conflict_check" /\ pc'[p] = "done" /\ result'[p].value.reason = SomeStr("file_exists") =>
            /\ Exists(fs, pdf_path(p))
            /\ result'[p].value.pdf_path = SomeStr(pdf_path(p))
            /\ result'[p].value.pdf_size = NoneU32
            /\ Exists(fs, metadata_path(p)) => result'[p].value.metadata_path = SomeStr(metadata_path(p))
            /\ ~Exists(fs, metadata_path(p)) => result'[p].value.metadata_path = NoneStr

C18_SidecarReported == [][C18_Step]_vars

C18_Witness ==
    \E p \in Procs :
        /\ Done(p) /\ Skipped(p, "file_exists")
        /\ Exists(fs, pdf_path(p)) /\ ~Exists(fs, metadata_path(p))
        /\ Outcome(p).metadata_path = NoneStr
        /\ Outcome(p).pdf_path = SomeStr(pdf_path(p))

\* the identifier an input carries: the input itself, or what an abs or pdf
\* URL of arxiv.org or www.arxiv.org wraps
Identifier(input) ==
    IF input \in ParserIds THEN input
    ELSE IF \E w \in ArxivWrappers, id \in ParserIds : input = Wrap(w, id)
         THEN CHOOSE id \in ParserIds : \E w \in ArxivWrappers : input = Wrap(w, id)
         ELSE ""

\* where the vN suffix of an identifier starts: after a body of the legacy
\* or the modern grammar, when digits and nothing else follow the v
SuffixStarts(id) ==
    {k \in 1..Len(id) :
        /\ IsLegacyBase(SubSeq(id, 1, k)) \/ IsModernBase(SubSeq(id, 1, k))
        /\ Len(id) >= k + 2 /\ CharAt(id, k + 1) = "v" /\ AllChars(Drop(id, k + 1), IsDigit)}

SuffixDigits(id) == Drop(id, (CHOOSE k \in SuffixStarts(id) : TRUE) + 1)

\* C19: an input whose body matches a grammar and that carries a vN suffix
\* is either not parsed or parsed with the requested version N, a positive
\* integer; it is never accepted with the suffix dropped, nor with version 0.
C19_ExactSuffix ==
    \A p \in Procs :
        Invoked(p) /\ SuffixStarts(Identifier(args[p].input_url_or_id)) # {} /\ parsed[p].ok =>
            /\ parsed[p].version.some
            /\ parsed[p].version.val >= 1
            /\ ToString(parsed[p].version.val) = SuffixDigits(Identifier(args[p].input_url_or_id))

\* the two ways the suffix is lost: a version that does not fit 32 bits
\* is dropped, version 0 is accepted
C19_Dropped ==
    \E p \in Procs :
        /\ Invoked(p) /\ args[p].input_url_or_id = "2301.12345v4294967296"
        /\ parsed[p].ok /\ ~parsed[p].version.some

C19_Zero ==
    \E p \in Procs :
        /\ Invoked(p) /\ Identifier(args[p].input_url_or_id) = "2301.12345v0"
        /\ parsed[p].ok /\ parsed[p].version = SomeU32(0)

C19_Exact ==
    \E p \in Procs :
        /\ Invoked(p) /\ Identifier(args[p].input_url_or_id) = "Math.GT/0309136v3"
        /\ parsed[p].ok /\ parsed[p].version = SomeU32(3) /\ parsed[p].base = "math.gt/0309136"

\* the PDF of every import that failed on the sidecar is on disk
C20_State == \A path \in partial : Exists(fs, path)

\* a later import that resolves to the stem of such a PDF changes no file
\* and ends at the conflict check with file_exists
C20_Later(p) == Invoked(p) /\ paper[p].some /\ pdf_path(p) \in partial

C20_EndsAtConflictCheck(p) ==
    /\ fs' = fs
    /\ pc[p] = "conflict_check" =>
           /\ pc'[p] = "done"
           /\ result'[p].value.reason = SomeStr("file_exists")
           /\ result'[p].value.pdf_path = SomeStr(pdf_path(p))
           /\ calls'[p].pdf_get = 0 /\ calls'[p].write = 0

C20_AbsentStep ==
    \A p \in Procs :
        C20_Later(p) =>
            /\ C20_EndsAtConflictCheck(p)
            /\ pc[p] = "conflict_check" => result'[p].value.metadata_path = NoneStr

\* C20 as stated: once an import wrote the PDF and failed on the sidecar, the
\* PDF stays on disk and every later import of the same stem ends at the
\* conflict check with file_exists and an absent metadata_path, the sidecar
\* never written.
C20_NeverRepaired == []C20_State /\ [][C20_AbsentStep]_vars

C20_ResidueStep ==
    \A p \in Procs :
        C20_Later(p) =>
            /\ C20_EndsAtConflictCheck(p)
            /\ pc[p] = "conflict_check" =>
                   /\ ~Exists(fs, metadata_path(p)) => result'[p].value.metadata_path = NoneStr
                   /\ Exists(fs, metadata_path(p)) =>
                          /\ result'[p].value.metadata_path = SomeStr(metadata_path(p))
                          /\ fs[metadata_path(p)] = FileNode("")

\* C20, amended: once an import wrote the PDF and failed on the sidecar, the
\* PDF stays on disk and every later import of the same stem ends at the
\* conflict check with file_exists and changes no file; its metadata_path
\* is absent when the failed write left no sidecar file, and names the
\* truncated file when it left one.
C20_NotRepaired == []C20_State /\ [][C20_ResidueStep]_vars

C20_Witness ==
    \E p \in Procs :
        /\ Done(p) /\ Skipped(p, "file_exists") /\ pdf_path(p) \in partial
        /\ ~Exists(fs, metadata_path(p)) /\ Outcome(p).metadata_path = NoneStr

\* a later import meets the sidecar file the failed write left
C20_Residue ==
    \E p \in Procs :
        /\ Done(p) /\ Skipped(p, "file_exists") /\ pdf_path(p) \in partial
        /\ Outcome(p).metadata_path = SomeStr(metadata_path(p))
        /\ fs[metadata_path(p)] = FileNode("")

\* the sidecar files on disk, and the PDF path of the same stem
Sidecars == {path \in DOMAIN fs : EndsWith(path, ".metadata.json")}

PdfOf(sidecar) == StripSuffixOr(sidecar, ".metadata.json") \o ".pdf"

\* C21: whether invocations run one after the other or interleaved, a
\* sidecar <stem>.metadata.json never exists without <stem>.pdf, and when an
\* invocation has returned Downloaded both files of its stem exist.
C21_SidecarImpliesPdf ==
    /\ \A sidecar \in Sidecars : Exists(fs, PdfOf(sidecar))
    /\ \A p \in Procs :
           ReturnedDownloaded(p) =>
               /\ Exists(fs, pdf_path(p)) /\ Outcome(p).pdf_path = SomeStr(pdf_path(p))
               /\ Exists(fs, metadata_path(p)) /\ Outcome(p).metadata_path = SomeStr(metadata_path(p))

\* one invocation has returned Downloaded while another, past the conflict
\* check before the PDF was there, is still on its way to the same files
C21_Witness ==
    \E p, q \in Procs :
        /\ p # q
        /\ ReturnedDownloaded(p) /\ metadata_path(p) \in Sidecars
        /\ pc[q] \in {"write_pdf", "write_sidecar"} /\ pdf_path(q) = pdf_path(p)

====
